---- MODULE Spec2Model ----
(***************************************************************************)
(* Model of the insurance coverage analyzer: the /analyze-coverage         *)
(* endpoint (app/api/v1/endpoints/coverage.py), the PDF extractor          *)
(* (app/services/pdf_extractor.py) and the response validation of          *)
(* InsuranceAnalyzer (app/services/insurance_analyzer.py).                 *)
(*                                                                         *)
(* Representation of Python values                                        *)
(*   - a JSON / Python scalar in the "percentage_score" slot is a record   *)
(*     [t, v]: t is the Python type ("absent" when the key is missing),    *)
(*     v its numeric value (True = 1, False = 0; floats carry their        *)
(*     integral part, other types carry 0);                                *)
(*   - a string is a record [t |-> "str", words, tidy]: words is what      *)
(*     str.split() returns, tidy says that the string is exactly its       *)
(*     words joined by single spaces (nothing leading or trailing);        *)
(*   - the raw completion text is a sequence of chunks, each chunk a       *)
(*     fixed piece of text: prose `text`, whitespace ` `, `null`, `[1]`,   *)
(*     the digit `7`, the JSON string `"s"`,                               *)
(*     `{x}` (braces around non-JSON), a lone `{`, a lone `}`, or the      *)
(*     text of a JSON object with the two keys validation reads;           *)
(*   - a document text is a sequence of symbols: newline, space, tab,      *)
(*     "a" (a letter), "K" (an occurrence of a one-word section keyword    *)
(*     such as `limits`), "P" and "S" (the words of the two-word keyword   *)
(*     `policy summary`, which matches as P, one space, S) and "=".        *)
(***************************************************************************)
EXTENDS Integers, Sequences, FiniteSets, TLC

VARIABLES pc, policy_ct, schedule_ct, question, policy_text, schedule_text,
          calls, llm, result, status, response, arg, out, out2

vars == <<pc, policy_ct, schedule_ct, question, policy_text, schedule_text,
          calls, llm, result, status, response, arg, out, out2>>

(* ---------------- bounds of the model ---------------- *)
MaxWords == 42
NumPatterns == 2
ScoreMargin == 2
MaxChunks == 2
MaxQLen == 1
TextLenMargin == 3
MaxTextChars == 4

(* ---------------- program constants ---------------- *)
TargetWords == 40
DefaultScore == 50
MinTextLen == 50

Min(a, b) == IF a < b THEN a ELSE b

(* ---------------- Python values ---------------- *)
PyInt(n) == [t |-> "int", v |-> n]
PyBool(n) == [t |-> "bool", v |-> n]
PyFloat(n) == [t |-> "float", v |-> n]
PyStrScalar == [t |-> "str", v |-> 0]
PyNull == [t |-> "null", v |-> 0]
Absent == [t |-> "absent", v |-> 0]

Str(ws, td) == [t |-> "str", words |-> ws, tidy |-> td]
NonStr(ty) == [t |-> ty, words |-> <<>>, tidy |-> TRUE]
AbsentStr == NonStr("absent")

\* str.split(): the whitespace-separated words
split(s) == s.words
\* " ".join(words)
join(ws) == Str(ws, TRUE)

isinstance_int_mut(x) == x.t \in {"int", "bool", "float"}
\* isinstance(x, int): bool is a subclass of int
isinstance_int(x) == x.t \in {"int", "bool"}

(* ---------------- InsuranceAnalyzer.__init__ ---------------- *)
likelihood_ranges_mut ==
    << [ranking |-> "Highly Unlikely", min_val |-> 0,  max_val |-> 21],
       [ranking |-> "Unlikely",        min_val |-> 21, max_val |-> 50],
       [ranking |-> "Somewhat Likely", min_val |-> 51, max_val |-> 65],
       [ranking |-> "Likely",          min_val |-> 66, max_val |-> 80],
       [ranking |-> "Highly Likely",   min_val |-> 81, max_val |-> 100] >>
\* dict in insertion order
likelihood_ranges ==
    << [ranking |-> "Highly Unlikely", min_val |-> 0,  max_val |-> 20],
       [ranking |-> "Unlikely",        min_val |-> 21, max_val |-> 50],
       [ranking |-> "Somewhat Likely", min_val |-> 51, max_val |-> 65],
       [ranking |-> "Likely",          min_val |-> 66, max_val |-> 80],
       [ranking |-> "Highly Likely",   min_val |-> 81, max_val |-> 100] >>

padding_words ==
    <<"based", "on", "policy", "terms", "and", "conditions", "provided",
      "in", "documentation">>

\* default of result.get("explanation", ...)
default_explanation ==
    Str(<<"Coverage", "assessment", "unavailable", "due", "to",
          "insufficient", "information", "in", "provided",
          "documentation.">>, TRUE)

(* ---------------- validate_response_format ---------------- *)
\* result.get("percentage_score", 50) followed by the range test
clamp_percentage(d) ==
    LET percentage == IF d.percentage_score.t = "absent"
                      THEN PyInt(DefaultScore) ELSE d.percentage_score
    IN IF ~isinstance_int(percentage) \/ percentage.v < 0 \/ percentage.v > 100
       THEN PyInt(DefaultScore)
       ELSE percentage

RECURSIVE map_ranking(_, _)
\* the for loop over likelihood_ranges.items(), first match wins
map_ranking(i, percentage) ==
    IF i > Len(likelihood_ranges) THEN "Somewhat Likely"
    ELSE IF likelihood_ranges[i].min_val <= percentage.v
            /\ percentage.v <= likelihood_ranges[i].max_val
         THEN likelihood_ranges[i].ranking
         ELSE map_ranking(i + 1, percentage)

RECURSIVE pad_mut(_, _)
pad_mut(words, padding) ==
    IF Len(words) < TargetWords /\ padding # <<>>
    THEN pad_mut(Append(words, padding[Len(padding)]),
                 SubSeq(padding, 1, Len(padding) - 1))
    ELSE words
RECURSIVE pad(_, _)
\* while len(words) < 40 and padding_words: words.append(padding_words.pop(0))
pad(words, padding) ==
    IF Len(words) < TargetWords /\ padding # <<>>
    THEN pad(Append(words, Head(padding)), Tail(padding))
    ELSE words

normalize_explanation_mut(explanation) ==
    LET words == split(explanation)
    IN IF Len(words) # TargetWords
       THEN IF Len(words) > TargetWords
            THEN join(SubSeq(words, 1, TargetWords + 1))
            ELSE LET padded == pad(words, padding_words)
                 IN join(SubSeq(padded, 1, Min(TargetWords, Len(padded))))
       ELSE explanation
\* lines 64-73: truncate to 40 words or pad from padding_words
normalize_explanation(explanation) ==
    LET words == split(explanation)
    IN IF Len(words) # TargetWords
       THEN IF Len(words) > TargetWords
            THEN join(SubSeq(words, 1, TargetWords))
            ELSE LET padded == pad(words, padding_words)
                 IN join(SubSeq(padded, 1, Min(TargetWords, Len(padded))))
       ELSE explanation

Dict(score, expl, rank) ==
    [percentage_score |-> score, likelihood_ranking |-> rank, explanation |-> expl]

NoDict == Dict(Absent, AbsentStr, "")

\* a call outcome: the value returned, or raised = TRUE
Ret(v) == [raised |-> FALSE, val |-> v]
Raise == [raised |-> TRUE, val |-> NoDict]

validate_response_format_mut(parsed) ==
    LET d == IF parsed.t # "dict" THEN NoDict ELSE parsed.d
        percentage == clamp_percentage(d)
        explanation == IF d.explanation.t # "str"
                       THEN default_explanation
                       ELSE d.explanation
    IN Ret(Dict(percentage, normalize_explanation(explanation),
                map_ranking(1, percentage)))
\* parsed: [t |-> "dict" | "null" | "list" | "int" | "string", d |-> the dict]
validate_response_format(parsed) ==
    IF parsed.t # "dict" THEN Raise            \* result.get: AttributeError
    ELSE LET percentage == clamp_percentage(parsed.d)
             explanation == IF parsed.d.explanation.t = "absent"
                            THEN default_explanation
                            ELSE parsed.d.explanation
         IN IF explanation.t # "str" THEN Raise    \* explanation.split
            ELSE Ret(Dict(percentage, normalize_explanation(explanation),
                          map_ranking(1, percentage)))

(* ---------------- the fixed fallback results ---------------- *)
_get_fallback_response ==
    Dict(PyInt(50), Str(<<"Unable", "to", "parse", "model", "response.",
         "Coverage", "assessment", "requires", "manual", "review", "of",
         "policy", "documentation", "for", "accurate", "determination",
         "of", "applicable", "terms", "and", "conditions.">>, TRUE),
         "Somewhat Likely")

_get_error_fallback_response_mut == _get_fallback_response
_get_error_fallback_response ==
    Dict(PyInt(50), Str(<<"Technical", "error", "occurred", "during",
         "analysis.", "Coverage", "determination", "requires", "manual",
         "review", "of", "policy", "terms", "conditions", "exclusions",
         "and", "applicable", "circumstances", "for", "accurate",
         "assessment.">>, TRUE),
         "Somewhat Likely")

(* ---------------- the raw completion text ---------------- *)
Chunk(kind, d) == [k |-> kind, d |-> d]
Plain(kind) == Chunk(kind, NoDict)

HasOpen(c) == c.k \in {"obj", "junk", "lbrace"}      \* the chunk contains `{`
HasClose(c) == c.k \in {"obj", "junk", "rbrace"}     \* the chunk contains `}`

RECURSIVE lstrip(_)
lstrip(s) == IF s # <<>> /\ Head(s).k = "ws" THEN lstrip(Tail(s)) ELSE s
RECURSIVE rstrip(_)
rstrip(s) == IF s # <<>> /\ s[Len(s)].k = "ws"
             THEN rstrip(SubSeq(s, 1, Len(s) - 1)) ELSE s
\* str.strip() on the completion text
strip(s) == rstrip(lstrip(s))

Parsed(ty, d) == [ok |-> TRUE, t |-> ty, d |-> d]
JSONDecodeError == [ok |-> FALSE, t |-> "null", d |-> NoDict]

\* json.loads: one JSON value with optional surrounding whitespace. The
\* values the chunks can spell are `null`, `[1]`, `"s"`, a run of digits, an
\* object chunk, and the empty object `{` whitespace* `}`.
json_loads(s) ==
    LET x == strip(s)
    IN IF Len(x) = 1 /\ x[1].k = "obj" THEN Parsed("dict", x[1].d)
       ELSE IF Len(x) = 1 /\ x[1].k \in {"null", "list", "string"}
            THEN Parsed(x[1].k, NoDict)
       ELSE IF Len(x) >= 1 /\ \A i \in 1..Len(x) : x[i].k = "num"
            THEN Parsed("int", NoDict)
       ELSE IF Len(x) >= 2 /\ x[1].k = "lbrace" /\ x[Len(x)].k = "rbrace"
               /\ \A i \in 2..(Len(x) - 1) : x[i].k = "ws"
            THEN Parsed("dict", NoDict)
       ELSE JSONDecodeError

\* re.search(r'\{.*\}', result, re.DOTALL): greedy, first `{` to last `}`
re_search(s) ==
    LET opens == {i \in 1..Len(s) : HasOpen(s[i])}
        closes == {i \in 1..Len(s) : HasClose(s[i])}
    IN IF opens = {} \/ closes = {} THEN [found |-> FALSE, group |-> <<>>]
       ELSE LET first == CHOOSE i \in opens : \A j \in opens : i <= j
                last == CHOOSE i \in closes : \A j \in closes : j <= i
            IN IF first <= last
               THEN [found |-> TRUE, group |-> SubSeq(s, first, last)]
               ELSE [found |-> FALSE, group |-> <<>>]

(* ---------------- InsuranceAnalyzer.analyze_coverage ---------------- *)
analyze_coverage_mut(l) ==
    IF l.kind \in {"raise", "nocontent"} THEN _get_error_fallback_response
    ELSE LET res == strip(l.raw)
             direct == json_loads(res)
             json_match == re_search(res)
             second == json_loads(json_match.group)
         IN IF ~direct.ok /\ ~json_match.found THEN _get_fallback_response
            ELSE LET parsed_result == IF direct.ok THEN direct ELSE second
                 IN IF ~parsed_result.ok THEN _get_error_fallback_response
                    ELSE LET validated_result == validate_response_format(parsed_result)
                         IN IF validated_result.raised
                            THEN _get_error_fallback_response
                            ELSE validated_result.val
\* l: the outcome of client.chat.completions.create
\*    kind "raise": the call raised; "nocontent": message.content is None;
\*    "text": message.content is the text l.raw
analyze_coverage(l) ==
    IF l.kind = "raise" THEN _get_error_fallback_response
    ELSE IF l.kind = "nocontent" THEN _get_error_fallback_response
    ELSE LET res == strip(l.raw)
             direct == json_loads(res)
             json_match == re_search(res)
             second == json_loads(json_match.group)
             parsed_result ==
                 IF direct.ok THEN direct
                 ELSE IF json_match.found THEN second
                 ELSE Parsed("dict", _get_fallback_response)
         IN IF ~parsed_result.ok THEN _get_error_fallback_response
            ELSE LET validated_result == validate_response_format(parsed_result)
                 IN IF validated_result.raised THEN _get_error_fallback_response
                    ELSE validated_result.val

(* ---------------- PDFExtractor ---------------- *)
\* an extractor outcome: raised, or text of the given stripped length
Text(source, n) == [raised |-> FALSE, src |-> source, len |-> n]
ExtractFail == [raised |-> TRUE, src |-> "none", len |-> 0]

extract_text_mut(primary, fallback) ==
    IF ~primary.raised /\ primary.len # 0 /\ primary.len >= MinTextLen
    THEN [out |-> primary, calls |-> <<"pymupdf">>]
    ELSE [out |-> fallback, calls |-> <<"pymupdf", "pypdf2">>]
extract_text_partial(primary, fallback) ==
    IF ~primary.raised /\ primary.len # 0 /\ primary.len > MinTextLen
    THEN [out |-> primary, calls |-> <<"pymupdf">>]
    ELSE [out |-> IF fallback.raised /\ ~primary.raised THEN primary ELSE fallback,
          calls |-> <<"pymupdf", "pypdf2">>]
\* extract_text: the primary's text when it has more than 50 characters,
\* otherwise whatever the fallback does. out.calls lists the extractors run.
extract_text(primary, fallback) ==
    IF ~primary.raised /\ primary.len # 0 /\ primary.len > MinTextLen
    THEN [out |-> primary, calls |-> <<"pymupdf">>]
    ELSE [out |-> fallback, calls |-> <<"pymupdf", "pypdf2">>]

(* ---------------- CoverageResponse ---------------- *)
CoverageResponse_fields ==
    {"clarity_score", "policy_wording_review", "explanation", "disclaimer",
     "policy_notes"}

\* CoverageResponse(**kwargs): pydantic raises ValidationError when a
\* required field is not supplied; unknown keywords are ignored
CoverageResponse(kwargs) ==
    IF CoverageResponse_fields \subseteq DOMAIN kwargs
    THEN [raised |-> FALSE,
          body |-> [f \in CoverageResponse_fields |-> kwargs[f]]]
    ELSE [raised |-> TRUE, body |-> <<>>]

(* ---------------- inputs ---------------- *)
InputVocab == <<"storm", "damage", "is", "covered", "under", "policy", "terms">>

\* an explanation of n words, the words cycling through InputVocab from offset p
Words(n, p) == [i \in 1..n |-> InputVocab[((i + p - 1) % Len(InputVocab)) + 1]]

ScoreValues ==
    {PyInt(n) : n \in (0 - ScoreMargin)..(100 + ScoreMargin)}
    \cup {PyBool(0), PyBool(1), PyFloat(75), PyFloat(150), PyStrScalar, PyNull, Absent}

ExplanationValues ==
    {Str(Words(n, p), td) : n \in 0..MaxWords, p \in 0..(NumPatterns - 1), td \in BOOLEAN}
    \cup {AbsentStr, NonStr("null"), NonStr("int"), NonStr("list")}

\* the dicts validate_response_format is applied to on its own
ValidateArgs ==
    {Dict(sc, ex, "Likely") : sc \in ScoreValues, ex \in ExplanationValues}

\* the JSON objects the completion text may carry
SampleScores ==
    {PyInt(0 - 1), PyInt(20), PyInt(21), PyInt(DefaultScore), PyInt(100 + 1),
     PyBool(1), PyStrScalar, Absent}
SampleExplanations ==
    {Str(Words(n, 0), TRUE) : n \in {0, TargetWords - 10, TargetWords - 9, TargetWords + 1}}
    \cup {Str(Words(TargetWords, 0), FALSE), AbsentStr, NonStr("null")}
LLMDicts ==
    {Dict(sc, ex, "Highly Likely") : sc \in SampleScores, ex \in SampleExplanations}

ChunkKinds ==
    {"prose", "ws", "null", "list", "num", "string", "junk", "lbrace", "rbrace", "obj"}
ChunksOf(d) == {IF kind = "obj" THEN Chunk(kind, d) ELSE Plain(kind) : kind \in ChunkKinds}
SeqsUpTo(S, n) == UNION {[1..m -> S] : m \in 0..n}
\* completion texts of at most MaxChunks chunks; the objects in one text are equal
RawTexts == UNION {SeqsUpTo(ChunksOf(d), MaxChunks) : d \in LLMDicts}

LLMOutcomes ==
    {[kind |-> "raise", raw |-> <<>>], [kind |-> "nocontent", raw |-> <<>>]}
    \cup {[kind |-> "text", raw |-> r] : r \in RawTexts}
NoLLM == [kind |-> "none", raw |-> <<>>]

ContentTypes == {"application/pdf", "text/plain", "none"}
Questions == SeqsUpTo({" ", "q"}, MaxQLen)

PrimaryOutcomes == {ExtractFail, Text("pymupdf", MinTextLen), Text("pymupdf", MinTextLen + 1)}
FallbackOutcomes == {ExtractFail, Text("pypdf2", 10)}
NoText == Text("none", 0)

RECURSIVE qlstrip(_)
qlstrip(q) == IF q # <<>> /\ Head(q) = " " THEN qlstrip(Tail(q)) ELSE q
RECURSIVE qrstrip(_)
qrstrip(q) == IF q # <<>> /\ q[Len(q)] = " "
              THEN qrstrip(SubSeq(q, 1, Len(q) - 1)) ELSE q
question_strip_mut(q) == q
\* question.strip()
question_strip(q) == qrstrip(qlstrip(q))

NoResponse == [kind |-> "none", body |-> <<>>]
ErrorResponse == [kind |-> "error", body |-> <<>>]

(* ---------------- POST /analyze-coverage ---------------- *)
Init ==
    /\ pc = "start"
    /\ policy_ct \in ContentTypes
    /\ schedule_ct \in ContentTypes
    /\ question \in Questions
    /\ policy_text = NoText
    /\ schedule_text = NoText
    /\ calls = <<>>
    /\ llm = NoLLM
    /\ result = NoDict
    /\ status = 0
    /\ response = NoResponse
    /\ arg = NoDict
    /\ out = NoDict
    /\ out2 = NoDict

Finish(code, resp) ==
    /\ pc' = "done"
    /\ status' = code
    /\ response' = resp

\* lines 31-40: the content types and the question
ValidateRequest ==
    /\ pc = "start"
    /\ IF policy_ct # "application/pdf" \/ schedule_ct # "application/pdf"
          \/ question_strip(question) = <<>>
       THEN Finish(400, ErrorResponse)
       ELSE pc' = "read" /\ UNCHANGED <<status, response>>
    /\ UNCHANGED <<policy_ct, schedule_ct, question, policy_text, schedule_text,
                   calls, llm, result, arg, out, out2>>

\* lines 45-46
ReadFiles ==
    /\ pc = "read"
    /\ pc' = "extract_policy"
    /\ calls' = calls \o <<"read:policy", "read:schedule">>
    /\ UNCHANGED <<policy_ct, schedule_ct, question, policy_text, schedule_text,
                   llm, result, status, response, arg, out, out2>>

\* line 49, and line 86 when the extraction raises
ExtractPolicy ==
    /\ pc = "extract_policy"
    /\ \E primary \in PrimaryOutcomes, fallback \in FallbackOutcomes :
         LET e == extract_text(primary, fallback)
         IN /\ calls' = calls \o [i \in 1..Len(e.calls) |-> e.calls[i] \o ":policy"]
            /\ IF e.out.raised
               THEN Finish(500, ErrorResponse) /\ UNCHANGED policy_text
               ELSE /\ policy_text' = e.out
                    /\ pc' = "extract_schedule"
                    /\ UNCHANGED <<status, response>>
    /\ UNCHANGED <<policy_ct, schedule_ct, question, schedule_text, llm, result, arg, out, out2>>

\* line 50, and line 86 when the extraction raises
ExtractSchedule ==
    /\ pc = "extract_schedule"
    /\ \E primary \in PrimaryOutcomes, fallback \in FallbackOutcomes :
         LET e == extract_text(primary, fallback)
         IN /\ calls' = calls \o [i \in 1..Len(e.calls) |-> e.calls[i] \o ":schedule"]
            /\ IF e.out.raised
               THEN Finish(500, ErrorResponse) /\ UNCHANGED schedule_text
               ELSE /\ schedule_text' = e.out
                    /\ pc' = "analyze"
                    /\ UNCHANGED <<status, response>>
    /\ UNCHANGED <<policy_ct, schedule_ct, question, policy_text, llm, result, arg, out, out2>>

Analyze_retry ==
    /\ pc = "analyze"
    /\ \E l \in LLMOutcomes :
         /\ llm' = l
         /\ result' = analyze_coverage(l)
         /\ pc' = IF l.kind = "raise" /\ Len(calls) < 8 THEN "analyze" ELSE "respond"
    /\ calls' = Append(calls, "llm")
    /\ UNCHANGED <<policy_ct, schedule_ct, question, policy_text, schedule_text,
                   status, response, arg, out, out2>>
\* line 62: analyzer.analyze_coverage with the completion call's outcome
Analyze ==
    /\ pc = "analyze"
    /\ \E l \in LLMOutcomes :
         /\ llm' = l
         /\ result' = analyze_coverage(l)
    /\ calls' = Append(calls, "llm")
    /\ pc' = "respond"
    /\ UNCHANGED <<policy_ct, schedule_ct, question, policy_text, schedule_text,
                   status, response, arg, out, out2>>

\* lines 76-86: build the CoverageResponse; a failure to build it is a 500
Respond ==
    /\ pc = "respond"
    /\ LET r == CoverageResponse(
                   [percentage_score |-> result.percentage_score,
                    likelihood_ranking |-> result.likelihood_ranking,
                    explanation |-> result.explanation])
       IN IF r.raised
          THEN Finish(500, ErrorResponse)
          ELSE Finish(200, [kind |-> "body", body |-> r.body])
    /\ UNCHANGED <<policy_ct, schedule_ct, question, policy_text, schedule_text,
                   calls, llm, result, arg, out, out2>>

Next ==
    \/ ValidateRequest
    \/ ReadFiles
    \/ ExtractPolicy
    \/ ExtractSchedule
    \/ Analyze
    \/ Respond

Spec == Init /\ [][Next]_vars

(* ---------------- validate_response_format on its own ---------------- *)
InitValidate ==
    /\ pc = "v_call"
    /\ arg \in ValidateArgs
    /\ policy_ct = "none"
    /\ schedule_ct = "none"
    /\ question = <<>>
    /\ policy_text = NoText
    /\ schedule_text = NoText
    /\ calls = <<>>
    /\ llm = NoLLM
    /\ result = NoDict
    /\ status = 0
    /\ response = NoResponse
    /\ out = NoDict
    /\ out2 = NoDict

Validate ==
    /\ pc = "v_call"
    /\ LET r == validate_response_format(Parsed("dict", arg))
       IN /\ pc' = IF r.raised THEN "v_raised" ELSE "v_ret"
          /\ result' = r.val
    /\ UNCHANGED <<policy_ct, schedule_ct, question, policy_text, schedule_text,
                   calls, llm, status, response, arg, out, out2>>

\* validate_response_format applied to its own result
ValidateAgain ==
    /\ pc = "v_ret"
    /\ LET r == validate_response_format(Parsed("dict", result))
       IN /\ pc' = IF r.raised THEN "v_raised_again" ELSE "v_again"
          /\ out2' = r.val
    /\ UNCHANGED <<policy_ct, schedule_ct, question, policy_text, schedule_text,
                   calls, llm, result, status, response, arg, out>>

NextValidate ==
    \/ Validate
    \/ ValidateAgain

SpecValidate == InitValidate /\ [][NextValidate]_vars

(* ======================= the claims ======================= *)
\* the band table of the documentation
TableBand(s) ==
    IF s <= 20 THEN "Highly Unlikely"
    ELSE IF s <= 50 THEN "Unlikely"
    ELSE IF s <= 65 THEN "Somewhat Likely"
    ELSE IF s <= 80 THEN "Likely"
    ELSE "Highly Likely"

InRange(x) == x.t = "int" /\ x.v >= 0 /\ x.v <= 100
Returned == pc \in {"respond", "done"} /\ llm.kind # "none"
NumWords(d) == Len(d.explanation.words)

\* C1: for every integer score s in 0..100 validate_response_format returns
\* the band of the table whose range contains s, and the five ranges are
\* pairwise disjoint and cover 0..100.
C1_BandMatchesTable ==
    /\ \A s \in 0..100 :
         Cardinality({i \in 1..Len(likelihood_ranges) :
                        likelihood_ranges[i].min_val <= s
                        /\ s <= likelihood_ranges[i].max_val}) = 1
    /\ (pc = "v_ret" /\ InRange(arg.percentage_score))
         => result.likelihood_ranking = TableBand(arg.percentage_score.v)

C1_Witness ==
    /\ pc = "v_ret"
    /\ arg.percentage_score = PyInt(21)
    /\ result.likelihood_ranking = "Unlikely"

\* C3 (as claimed): validate_response_format returns the score unchanged when
\* it is an integer in 0..100 and returns score 50 with band "Unlikely" for
\* every other input (absent, not an integer, out of range).
C3_DefaultsTo50 ==
    pc = "v_ret" =>
        IF InRange(arg.percentage_score)
        THEN result.percentage_score = arg.percentage_score
        ELSE /\ result.percentage_score = PyInt(50)
             /\ result.likelihood_ranking = "Unlikely"

\* the padding vocabulary as the documentation lists it
ClaimedPadding ==
    <<"based", "on", "policy", "terms", "and", "conditions", "provided",
      "in", "documentation">>

C2_BandContainsScore ==
    Returned => result.likelihood_ranking = TableBand(result.percentage_score.v)

\* C4: the explanation of every result analyze_coverage returns has at most
\* 40 words, whatever the completion returned and on both fallback paths.
C4_AtMost40Words ==
    Returned => (result.explanation.t = "str" /\ NumWords(result) <= 40)

C4_Witness ==
    /\ Returned
    /\ llm.kind = "text"
    /\ Len(llm.raw) = 1
    /\ llm.raw[1].k = "obj"
    /\ Len(llm.raw[1].d.explanation.words) = 41
    /\ NumWords(result) = 40

\* C6 (as claimed): every result analyze_coverage returns has an explanation
\* of exactly 40 words.
C6_Exactly40Words ==
    Returned => NumWords(result) = 40

\* the completion text is not JSON and has no `{` followed by a `}`
NoJsonNoBraces ==
    /\ llm.kind = "text"
    /\ ~json_loads(strip(llm.raw)).ok
    /\ \A i, j \in 1..Len(llm.raw) :
          (HasOpen(llm.raw[i]) /\ HasClose(llm.raw[j])) => j < i

C8_ErrorFallback ==
    llm.kind = "raise" =>
        /\ pc \in {"respond", "done"}
        /\ result.percentage_score = PyInt(50)
        /\ result.likelihood_ranking = "Somewhat Likely"
        /\ NumWords(result) = 21
        /\ result.explanation.words[1] = "Technical"
        /\ result.explanation # _get_fallback_response.explanation

C8_Witness ==
    /\ pc = "respond"
    /\ llm.kind = "raise"
    /\ result.likelihood_ranking = "Somewhat Likely"

\* C9 (as claimed): a request that passes input validation and whose two
\* extractions succeed is answered 200 with the analyzer's score, band and
\* explanation, whatever the completion call did.
C9_AnalyzedIs200 ==
    (pc = "done" /\ llm.kind # "none") =>
        /\ status = 200
        /\ response.kind = "body"

AllSpaces(q) == \A i \in 1..Len(q) : q[i] = " "
BadRequest ==
    \/ policy_ct # "application/pdf"
    \/ schedule_ct # "application/pdf"
    \/ AllSpaces(question)

\* C10: a request in which a file part is not declared PDF, or whose question
\* is empty after trimming, is rejected with 400 before any file is read, any
\* extractor is invoked or the LLM is called.
C10_RejectedBeforePipeline ==
    BadRequest =>
        /\ pc \in {"start", "done"}
        /\ calls = <<>>
        /\ llm = NoLLM
        /\ policy_text = NoText /\ schedule_text = NoText
        /\ pc = "done" => (status = 400 /\ response = ErrorResponse)

C10_Witness ==
    /\ pc = "done"
    /\ status = 400
    /\ policy_ct = "application/pdf"
    /\ schedule_ct = "application/pdf"
    /\ question = <<" ">>
    /\ calls = <<>>

(* ---------------- PDFExtractor.extract_text on its own ---------------- *)
ExtractPrimaries ==
    {ExtractFail} \cup {Text("pymupdf", n) : n \in 0..(MinTextLen + TextLenMargin)}
ExtractFallbacks ==
    {ExtractFail} \cup {Text("pypdf2", n) : n \in {0, 10, MinTextLen + 10}}

InitExtract ==
    /\ pc = "x_call"
    /\ arg \in [primary : ExtractPrimaries, fallback : ExtractFallbacks]
    /\ policy_ct = "none"
    /\ schedule_ct = "none"
    /\ question = <<>>
    /\ policy_text = NoText
    /\ schedule_text = NoText
    /\ calls = <<>>
    /\ llm = NoLLM
    /\ result = NoDict
    /\ status = 0
    /\ response = NoResponse
    /\ out = NoText
    /\ out2 = NoDict

\* one call of extract_text; the fallback's exception propagates
Extract ==
    /\ pc = "x_call"
    /\ LET e == extract_text(arg.primary, arg.fallback)
       IN /\ calls' = e.calls
          /\ pc' = IF e.out.raised THEN "x_raised" ELSE "x_ret"
          /\ out' = e.out
    /\ UNCHANGED <<policy_ct, schedule_ct, question, policy_text, schedule_text,
                   llm, result, status, response, arg, out2>>

NextExtract == Extract

SpecExtract == InitExtract /\ [][NextExtract]_vars

ExtractDone == pc \in {"x_ret", "x_raised"}
FallbackOutcome ==
    /\ calls = <<"pymupdf", "pypdf2">>
    /\ out = arg.fallback
    /\ pc = IF arg.fallback.raised THEN "x_raised" ELSE "x_ret"
PrimaryOutcome ==
    /\ calls = <<"pymupdf">>
    /\ out = arg.primary
    /\ pc = "x_ret"

\* C11 (as claimed): extract_text returns the primary's text without invoking
\* the fallback exactly when the primary does not raise and yields at least
\* 50 characters; otherwise the fallback is invoked and its result returned.
C11_AtLeast50 ==
    ExtractDone =>
        IF ~arg.primary.raised /\ arg.primary.len >= 50
        THEN PrimaryOutcome ELSE FallbackOutcome

\* C11 (amended): extract_text returns the primary's text without invoking
\* the fallback exactly when the primary does not raise and yields more than
\* 50 characters; otherwise the fallback is invoked and its outcome (its text,
\* or its error) is the outcome of extract_text.
C11_MoreThan50 ==
    ExtractDone =>
        IF ~arg.primary.raised /\ arg.primary.len > 50
        THEN PrimaryOutcome ELSE FallbackOutcome

C11_Witness ==
    /\ pc = "x_ret"
    /\ arg.primary = Text("pymupdf", 50)
    /\ calls = <<"pymupdf", "pypdf2">>
    /\ out.src = "pypdf2"

Called(c) == \E i \in 1..Len(calls) : calls[i] = c
\* the fallback extractor ran for the document and returned no text
PolicyFallbackFailed == Called("pypdf2:policy") /\ policy_text.src # "pypdf2"
ScheduleFallbackFailed == Called("pypdf2:schedule") /\ schedule_text.src # "pypdf2"

\* C12: when the fallback extractor fails for either document, the request
\* ends with a server error (500) carrying no score, band or explanation, the
\* LLM is never called, and the primary's text is not kept as a partial result.
C12_FallbackFailureIs500 ==
    /\ PolicyFallbackFailed => policy_text = NoText
    /\ ScheduleFallbackFailed => schedule_text = NoText
    /\ (PolicyFallbackFailed \/ ScheduleFallbackFailed) =>
          /\ pc = "done"
          /\ status = 500
          /\ response = ErrorResponse
          /\ result = NoDict
          /\ llm = NoLLM

C12_Witness ==
    /\ pc = "done"
    /\ status = 500
    /\ policy_text = Text("pymupdf", 51)
    /\ ScheduleFallbackFailed
    /\ calls[Len(calls)] = "pypdf2:schedule"

\* the external calls of one request, in the order the pipeline makes them
CallOrder ==
    <<"read:policy", "read:schedule", "pymupdf:policy", "pypdf2:policy",
      "pymupdf:schedule", "pypdf2:schedule", "llm">>
Rank(c) == CHOOSE i \in 1..Len(CallOrder) : CallOrder[i] = c

\* C13: the external calls of a request occur in the order policy extraction,
\* schedule extraction, LLM completion; each extractor runs at most once per
\* document and the LLM at most once; the LLM is called only after both
\* extractions have returned text.
C13_CallOrderNoRetry ==
    /\ \A i, j \in 1..Len(calls) : i < j => Rank(calls[i]) < Rank(calls[j])
    /\ \A c \in {"pypdf2:policy", "pypdf2:schedule"} :
          Called(c) => \E i \in 2..Len(calls) :
                          calls[i] = c /\ Rank(calls[i - 1]) = Rank(c) - 1
    /\ Called("llm") =>
          /\ Called("pymupdf:policy") /\ Called("pymupdf:schedule")
          /\ policy_text # NoText /\ ~policy_text.raised
          /\ schedule_text # NoText /\ ~schedule_text.raised

C13_Witness ==
    /\ pc = "done"
    /\ calls = CallOrder
    /\ llm.kind = "raise"

(* ---------------- InsuranceAnalyzer.clean_and_structure_text ---------------- *)
IsSpace(c) == c \in {" ", "\t", "\n"}           \* \s
Max(S) == CHOOSE x \in S : \A y \in S : y <= x

RECURSIVE collapse_blank_lines(_)
\* re.sub(r'\n\s*\n', '\n\n', text): leftmost match, \s* greedy
collapse_blank_lines(s) ==
    IF s = <<>> THEN <<>>
    ELSE IF Head(s) = "\n"
         THEN LET ends == {j \in 2..Len(s) :
                             s[j] = "\n" /\ \A k \in 2..(j - 1) : IsSpace(s[k])}
              IN IF ends = {}
                 THEN <<"\n">> \o collapse_blank_lines(Tail(s))
                 ELSE <<"\n", "\n">>
                      \o collapse_blank_lines(SubSeq(s, Max(ends) + 1, Len(s)))
         ELSE <<Head(s)>> \o collapse_blank_lines(Tail(s))

RECURSIVE collapse_spaces(_)
\* re.sub(r' +', ' ', text)
collapse_spaces(s) ==
    IF s = <<>> THEN <<>>
    ELSE IF Head(s) = " " /\ Len(s) >= 2 /\ s[2] = " "
         THEN collapse_spaces(Tail(s))
         ELSE <<Head(s)>> \o collapse_spaces(Tail(s))

RECURSIVE split_lines(_)
\* text.split('\n')
split_lines(s) ==
    IF \A i \in 1..Len(s) : s[i] # "\n" THEN <<s>>
    ELSE LET i == CHOOSE i \in 1..Len(s) :
                     s[i] = "\n" /\ \A j \in 1..(i - 1) : s[j] # "\n"
         IN <<SubSeq(s, 1, i - 1)>> \o split_lines(SubSeq(s, i + 1, Len(s)))

RECURSIVE line_lstrip(_)
line_lstrip(l) == IF l # <<>> /\ IsSpace(Head(l)) THEN line_lstrip(Tail(l)) ELSE l
RECURSIVE line_rstrip(_)
line_rstrip(l) == IF l # <<>> /\ IsSpace(l[Len(l)])
                  THEN line_rstrip(SubSeq(l, 1, Len(l) - 1)) ELSE l
\* line.strip()
line_strip(l) == line_rstrip(line_lstrip(l))

\* any(section in line.lower() for section in sections)
is_section(l) ==
    \/ \E i \in 1..Len(l) : l[i] = "K"
    \/ \E i \in 1..(Len(l) - 2) : l[i] = "P" /\ l[i + 1] = " " /\ l[i + 2] = "S"

section_marker_mut(l) == <<"\n", "=", "=", "=", " ">> \o l
\* f"\n=== {line} ==="
section_marker(l) == <<"\n", "=", "=", "=", " ">> \o l \o <<" ", "=", "=", "=">>

RECURSIVE structure_lines(_)
\* the for loop over lines
structure_lines(lines) ==
    IF lines = <<>> THEN <<>>
    ELSE LET line == line_strip(Head(lines))
         IN IF line # <<>>
            THEN IF is_section(line)
                 THEN <<section_marker(line)>> \o structure_lines(Tail(lines))
                 ELSE <<line>> \o structure_lines(Tail(lines))
            ELSE structure_lines(Tail(lines))

RECURSIVE join_lines(_)
\* '\n'.join(structured_lines)
join_lines(lines) ==
    IF lines = <<>> THEN <<>>
    ELSE IF Len(lines) = 1 THEN lines[1]
    ELSE lines[1] \o <<"\n">> \o join_lines(Tail(lines))

clean_and_structure_text(text) ==
    join_lines(structure_lines(split_lines(collapse_spaces(collapse_blank_lines(text)))))

TextAlphabet == {"\n", " ", "\t", "a", "K", "P", "S"}
Texts == SeqsUpTo(TextAlphabet, MaxTextChars)

InitStructure ==
    /\ pc = "s_call"
    /\ arg \in Texts
    /\ policy_ct = "none"
    /\ schedule_ct = "none"
    /\ question = <<>>
    /\ policy_text = NoText
    /\ schedule_text = NoText
    /\ calls = <<>>
    /\ llm = NoLLM
    /\ result = NoDict
    /\ status = 0
    /\ response = NoResponse
    /\ out = <<>>
    /\ out2 = <<>>

Structure ==
    /\ pc = "s_call"
    /\ out' = clean_and_structure_text(arg)
    /\ pc' = "s_once"
    /\ UNCHANGED <<policy_ct, schedule_ct, question, policy_text, schedule_text,
                   calls, llm, result, status, response, arg, out2>>

\* the function applied to its own output
StructureAgain ==
    /\ pc = "s_once"
    /\ out2' = clean_and_structure_text(out)
    /\ pc' = "s_twice"
    /\ UNCHANGED <<policy_ct, schedule_ct, question, policy_text, schedule_text,
                   calls, llm, result, status, response, arg, out>>

NextStructure ==
    \/ Structure
    \/ StructureAgain

SpecStructure == InitStructure /\ [][NextStructure]_vars

\* `=== line ===`
MarkerWrap(l) == <<"=", "=", "=", " ">> \o l \o <<" ", "=", "=", "=">>
\* the lines of the second output are those of the first, keyword lines wrapped once more
SameLinesOneMoreWrap ==
    LET l1 == split_lines(out)
        l2 == split_lines(out2)
    IN /\ Len(l2) = Len(l1)
       /\ \A i \in 1..Len(l1) :
             l2[i] = IF is_section(l1[i]) THEN MarkerWrap(l1[i]) ELSE l1[i]
NoKeywordLine(text) ==
    \A i \in 1..Len(split_lines(text)) : ~is_section(split_lines(text)[i])

\* C14 (as claimed): structuring the output again keeps the same lines in the
\* same order, keyword lines carrying one more marker wrap; for text in which
\* no line contains a section keyword the function is idempotent.
C14_RoundTrip ==
    pc = "s_twice" =>
        /\ SameLinesOneMoreWrap
        /\ NoKeywordLine(arg) => out2 = out

\* C14 (amended): the same, the idempotence holding for text in which no line
\* contains a section keyword once runs of spaces are collapsed to one space.
C14_RoundTripCollapsed ==
    pc = "s_twice" =>
        /\ SameLinesOneMoreWrap
        /\ NoKeywordLine(collapse_spaces(arg)) => out2 = out

C14_Witness ==
    /\ pc = "s_twice"
    /\ arg = <<"a", "\n", "K">>
    /\ out = <<"a", "\n", "\n", "=", "=", "=", " ", "K", " ", "=", "=", "=">>
    /\ Len(out2) = Len(out) + 8

\* the direct parse fails, and so does the parse of the text from the first
\* `{` to the last `}`
BothParsesFail ==
    /\ llm.kind = "text"
    /\ ~json_loads(strip(llm.raw)).ok
    /\ re_search(strip(llm.raw)).found
    /\ ~json_loads(re_search(strip(llm.raw)).group).ok

\* C15 (as claimed): when the direct parse and the parse of the brace
\* substring both fail, analyze_coverage returns the parse-failure fallback
\* (its canned sentence, as returned or as validated), not the
\* invocation-error fallback.
C15_BothFailIsParseFallback ==
    (Returned /\ BothParsesFail) =>
        /\ NumWords(result) >= 21
        /\ SubSeq(result.explanation.words, 1, 21)
             = _get_fallback_response.explanation.words
        /\ result # _get_error_fallback_response

\* C16 (as claimed): validate_response_format is idempotent on dicts with an
\* integer-or-absent score and a string-or-absent explanation.
C16_Idempotent ==
    (pc = "v_again" /\ arg.percentage_score.t \in {"int", "absent"}
                    /\ arg.explanation.t \in {"str", "absent"})
        => out2 = result

\* the completion text is JSON but not an object
NonObjectJson ==
    LET x == strip(llm.raw)
    IN \/ Len(x) = 1 /\ x[1].k \in {"null", "list", "string"}
       \/ Len(x) >= 1 /\ \A i \in 1..Len(x) : x[i].k = "num"
\* the completion text is an object whose explanation is not a string
ObjectWithNonStringExplanation ==
    LET x == strip(llm.raw)
    IN Len(x) = 1 /\ x[1].k = "obj"
       /\ x[1].d.explanation.t \notin {"str", "absent"}

\* C17: when the completion text parses as JSON but is not an object, or is an
\* object whose explanation is not a string, analyze_coverage does not raise
\* and returns the invocation-error fallback.
C17_NonObjectIsErrorFallback ==
    (llm.kind = "text" /\ (NonObjectJson \/ ObjectWithNonStringExplanation)) =>
        /\ pc \in {"respond", "done"}
        /\ result.percentage_score = PyInt(50)
        /\ result.likelihood_ranking = "Somewhat Likely"
        /\ result.explanation =
             Str(<<"Technical", "error", "occurred", "during", "analysis.",
                   "Coverage", "determination", "requires", "manual", "review",
                   "of", "policy", "terms", "conditions", "exclusions", "and",
                   "applicable", "circumstances", "for", "accurate",
                   "assessment.">>, TRUE)

C17_Witness ==
    /\ pc = "respond"
    /\ llm.kind = "text"
    /\ llm.raw = <<Plain("list")>>
    /\ result.explanation.words[1] = "Technical"
    /\ NumWords(result) = 21

====
